---- MODULE Spec2Model ----
EXTENDS Integers, Sequences, FiniteSets, TLC

\* Skill-Cortex indexing engine: header parser, tag rewriter, scanner,
\* category tree, index cache and the lock-protected shared index state.
\*
\* Text is a sequence of one-character strings.  "BOM" stands for the single
\* code point U+FEFF.  A python Optional is a sequence of length 0 or 1.

VARIABLES
    doc,          \* content of one document file on disk (library-level runs)
    parsed,       \* last result of parse_skill_markdown on the document
    rw,           \* last call of _update_tags_in_skill_md: input, tags, outcome
    validated,    \* last call of _validate_tags: tags, allow-list, issues
    files,        \* the SKILL.md files on disk: document directory -> file
    root_kind,    \* what each configured root is: "dir", "missing", "file"
    cache_file,   \* the index cache file
    cache_src,    \* the ScanResult save_index wrote the cache file from, if any
    mem,          \* a ScanResult held by a library caller, with its origin
    loaded,       \* last result of load_index, with the file it read
    tags_file,    \* the tags registry file
    state,        \* the server's shared state: registry and scan, each Optional
    state_lock,   \* the thread holding state_lock, or NoThread
    pc,           \* where each tool-invocation thread is
    call,         \* the tool invocation each thread is running (or ran last)
    frame,        \* the local variables of each thread's invocation
    ret,          \* what each thread's last invocation returned
    ncalls        \* number of tool invocations started

textVars == <<doc, parsed, rw, validated>>
indexVars == <<files, root_kind, cache_file, cache_src, mem, loaded>>
serverVars == <<tags_file, state, state_lock, pc, call, frame, ret, ncalls>>
vars == <<doc, parsed, rw, validated, files, root_kind, cache_file, cache_src, mem, loaded,
          tags_file, state, state_lock, pc, call, frame, ret, ncalls>>

None == <<>>
Some(x) == <<x>>

BOM == "BOM"
NL == "\n"
CR == "\r"

(***************************************************************************)
(* python str primitives                                                   *)
(***************************************************************************)

\* str.isspace for the characters of the model alphabet (U+FEFF is not space)
IsSpace(c) == c \in {" ", "\t", NL, CR}

RECURSIVE lstrip_set(_, _)
lstrip_set(s, cs) ==
    IF s # <<>> /\ Head(s) \in cs THEN lstrip_set(Tail(s), cs) ELSE s

RECURSIVE rstrip_set(_, _)
rstrip_set(s, cs) ==
    IF s # <<>> /\ s[Len(s)] \in cs
    THEN rstrip_set(SubSeq(s, 1, Len(s) - 1), cs)
    ELSE s

WhiteSpace == {" ", "\t", NL, CR}
Quotes == {"\"", "'"}

lstrip(s) == lstrip_set(s, WhiteSpace)
strip(s) == rstrip_set(lstrip_set(s, WhiteSpace), WhiteSpace)
strip_quotes(s) == rstrip_set(lstrip_set(s, Quotes), Quotes)

UpperCase == <<"A","B","C","D","E","F","G","H","I","J","K","L","M",
               "N","O","P","Q","R","S","T","U","V","W","X","Y","Z">>
LowerCase == <<"a","b","c","d","e","f","g","h","i","j","k","l","m",
               "n","o","p","q","r","s","t","u","v","w","x","y","z">>

LowerOf == [i \in 1..Len(UpperCase) |-> LowerCase[i]]
UpperIndex == [c \in {UpperCase[i] : i \in 1..Len(UpperCase)} |->
                 CHOOSE i \in 1..Len(UpperCase) : UpperCase[i] = c]

lower_char(c) == IF c \in DOMAIN UpperIndex THEN LowerOf[UpperIndex[c]] ELSE c

lower(s) == [i \in 1..Len(s) |-> lower_char(s[i])]

startswith(s, p) == Len(s) >= Len(p) /\ SubSeq(s, 1, Len(p)) = p
endswith(s, p) == Len(s) >= Len(p) /\ SubSeq(s, Len(s) - Len(p) + 1, Len(s)) = p

Contains(s, c) == \E i \in 1..Len(s) : s[i] = c

\* index of the first occurrence of character c in s (c occurs in s)
IndexOf(s, c) == CHOOSE i \in 1..Len(s) : s[i] = c /\ \A j \in 1..(i - 1) : s[j] # c

\* str.split(sep) for a one-character separator
RECURSIVE split(_, _)
split(s, sep) ==
    IF ~Contains(s, sep) THEN <<s>>
    ELSE LET i == IndexOf(s, sep)
         IN <<SubSeq(s, 1, i - 1)>> \o split(SubSeq(s, i + 1, Len(s)), sep)

\* sep.join(parts)
RECURSIVE join(_, _)
join(parts, sep) ==
    IF parts = <<>> THEN <<>>
    ELSE IF Len(parts) = 1 THEN parts[1]
    ELSE parts[1] \o sep \o join(Tail(parts), sep)

\* str.split() with no argument: the whitespace-separated words
RECURSIVE words_from(_, _)
words_from(s, cur) ==
    IF s = <<>> THEN (IF cur = <<>> THEN <<>> ELSE <<cur>>)
    ELSE IF IsSpace(Head(s))
         THEN (IF cur = <<>> THEN <<>> ELSE <<cur>>) \o words_from(Tail(s), <<>>)
         ELSE words_from(Tail(s), Append(cur, Head(s)))

words(s) == words_from(s, <<>>)

\* str.splitlines(keepends): breaks at \n, \r and \r\n; no trailing empty line
RECURSIVE splitlines_from(_, _, _, _)
splitlines_from(s, i, cur, keepends) ==
    IF i > Len(s) THEN (IF cur = <<>> THEN <<>> ELSE <<cur>>)
    ELSE IF s[i] = NL
         THEN <<IF keepends THEN Append(cur, NL) ELSE cur>>
              \o splitlines_from(s, i + 1, <<>>, keepends)
    ELSE IF s[i] = CR
         THEN IF i < Len(s) /\ s[i + 1] = NL
              THEN <<IF keepends THEN cur \o <<CR, NL>> ELSE cur>>
                   \o splitlines_from(s, i + 2, <<>>, keepends)
              ELSE <<IF keepends THEN Append(cur, CR) ELSE cur>>
                   \o splitlines_from(s, i + 1, <<>>, keepends)
    ELSE splitlines_from(s, i + 1, Append(cur, s[i]), keepends)

splitlines(s, keepends) == splitlines_from(s, 1, <<>>, keepends)

InSeq(s, x) == \E i \in 1..Len(s) : s[i] = x

(***************************************************************************)
(* frontmatter.py                                                          *)
(***************************************************************************)

DELIM == <<"-", "-", "-">>

RECURSIVE normalize_from(_, _)
normalize_from(tags, normalized) ==
    IF tags = <<>> THEN normalized
    ELSE LET tag == lower(strip(Head(tags)))
         IN IF tag = <<>> \/ InSeq(normalized, tag)
            THEN normalize_from(Tail(tags), normalized)
            ELSE normalize_from(Tail(tags), Append(normalized, tag))

normalize_tags(tags) == normalize_from(tags, <<>>)

max_words == 30

make_description_snapshot(description) ==
    LET ws == words(strip(description))
    IN IF Len(ws) <= max_words
       THEN join(ws, <<" ">>)
       ELSE join(SubSeq(ws, 1, max_words), <<" ">>)

\* None, or Some(<<key, value>>)
_parse_key_value_line(line) ==
    IF ~Contains(line, ":") THEN None
    ELSE LET i == IndexOf(line, ":")
             key == strip(SubSeq(line, 1, i - 1))
             value == strip(SubSeq(line, i + 1, Len(line)))
         IN IF key = <<>> THEN None ELSE Some(<<key, value>>)

\* [p.strip().strip("\"'") for p in s.split(",") if p.strip()]
comma_parts(s) ==
    LET parts == split(s, ",")
        NonBlank(p) == strip(p) # <<>>
        kept == SelectSeq(parts, NonBlank)
    IN [i \in 1..Len(kept) |-> strip_quotes(strip(kept[i]))]

_parse_tags_value(value) ==
    LET v == strip(value)
    IN IF v = <<>> THEN <<>>
       ELSE IF startswith(v, <<"[">>) /\ endswith(v, <<"]">>)
            THEN LET inner == strip(SubSeq(v, 2, Len(v) - 1))
                 IN IF inner = <<>> THEN <<>> ELSE comma_parts(inner)
            ELSE comma_parts(v)

\* a header loop in which a name key replaces a title already set
parse_header_line_name_overrides(st, raw_line) ==
    LET line == strip(raw_line)
    IN IF line = <<>> THEN st
       ELSE IF st.in_tags_list /\ startswith(line, <<"-">>)
            THEN [st EXCEPT !.tags = Append(@, strip_quotes(strip(Tail(line))))]
       ELSE LET st1 == [st EXCEPT !.in_tags_list = FALSE]
                kv == _parse_key_value_line(line)
            IN IF kv = None THEN st1
               ELSE LET key_lower == lower(kv[1][1])
                        value == kv[1][2]
                    IN IF key_lower = <<"t","i","t","l","e">> \/ key_lower = <<"n","a","m","e">>
                       THEN [st1 EXCEPT !.title = strip_quotes(strip(value))]
                       ELSE IF key_lower = <<"d","e","s","c","r","i","p","t","i","o","n">>
                       THEN [st1 EXCEPT !.description = strip_quotes(strip(value))]
                       ELSE IF key_lower = <<"t","a","g","s">>
                       THEN IF value = <<>> \/ value = <<"[", "]">>
                            THEN [st1 EXCEPT !.in_tags_list = TRUE]
                            ELSE [st1 EXCEPT !.tags = @ \o _parse_tags_value(value)]
                       ELSE st1

\* one iteration of the loop over frontmatter_lines; st holds the loop's
\* variables title, description, tags, in_tags_list
parse_header_line(st, raw_line) ==
    LET line == strip(raw_line)
    IN IF line = <<>> THEN st
       ELSE IF st.in_tags_list /\ startswith(line, <<"-">>)
            THEN [st EXCEPT !.tags = Append(@, strip_quotes(strip(Tail(line))))]
       ELSE LET st1 == [st EXCEPT !.in_tags_list = FALSE]
                kv == _parse_key_value_line(line)
            IN IF kv = None THEN st1
               ELSE LET key_lower == lower(kv[1][1])
                        value == kv[1][2]
                    IN IF key_lower = <<"t","i","t","l","e">>
                       THEN [st1 EXCEPT !.title = strip_quotes(strip(value))]
                       ELSE IF key_lower = <<"n","a","m","e">> /\ st1.title = <<>>
                       THEN [st1 EXCEPT !.title = strip_quotes(strip(value))]
                       ELSE IF key_lower = <<"d","e","s","c","r","i","p","t","i","o","n">>
                       THEN [st1 EXCEPT !.description = strip_quotes(strip(value))]
                       ELSE IF key_lower = <<"t","a","g","s">>
                       THEN IF value = <<>> \/ value = <<"[", "]">>
                            THEN [st1 EXCEPT !.in_tags_list = TRUE]
                            ELSE [st1 EXCEPT !.tags = @ \o _parse_tags_value(value)]
                       ELSE st1

RECURSIVE parse_header_lines(_, _)
parse_header_lines(st, frontmatter_lines) ==
    IF frontmatter_lines = <<>> THEN st
    ELSE parse_header_lines(parse_header_line(st, Head(frontmatter_lines)),
                            Tail(frontmatter_lines))

\* index (1-based) of the first line after the first whose stripped text is
\* the delimiter; 0 when the loop ends with end_index still None
RECURSIVE parser_end_index(_, _)
parser_end_index(lines, i) ==
    IF i > Len(lines) THEN 0
    ELSE IF strip(lines[i]) = DELIM THEN i
    ELSE parser_end_index(lines, i + 1)

ParseFailure(code) ==
    [err |-> code, title |-> <<>>, description |-> <<>>, tags |-> <<>>,
     end_index |-> 0]

\* result: err = "ok" with the ParsedFrontmatter fields, or the ValueError code
parse_skill_markdown(markdown_text) ==
    LET text == lstrip_set(markdown_text, {BOM})
        lines == splitlines(text, FALSE)
    IN IF lines = <<>> \/ strip(lines[1]) # DELIM
       THEN ParseFailure("missing_frontmatter")
       ELSE LET end_index == parser_end_index(lines, 2)
            IN IF end_index = 0
               THEN ParseFailure("unterminated_frontmatter")
               ELSE LET st == parse_header_lines(
                                [title |-> <<>>, description |-> <<>>,
                                 tags |-> <<>>, in_tags_list |-> FALSE],
                                SubSeq(lines, 2, end_index - 1))
                    IN IF st.title = <<>>
                       THEN [ParseFailure("missing_title") EXCEPT !.end_index = end_index]
                       ELSE IF st.description = <<>>
                       THEN [ParseFailure("missing_description") EXCEPT !.end_index = end_index]
                       ELSE [err |-> "ok", title |-> st.title,
                             description |-> st.description,
                             tags |-> normalize_tags(st.tags),
                             end_index |-> end_index]

(***************************************************************************)
(* files: Path.read_text / Path.write_text in text mode                    *)
(***************************************************************************)

\* universal newlines on read: \r\n and \r become \n
RECURSIVE read_text(_)
read_text(data) ==
    IF data = <<>> THEN <<>>
    ELSE IF Head(data) = CR
         THEN IF Len(data) >= 2 /\ data[2] = NL
              THEN <<NL>> \o read_text(SubSeq(data, 3, Len(data)))
              ELSE <<NL>> \o read_text(Tail(data))
         ELSE <<Head(data)>> \o read_text(Tail(data))

\* os.linesep of the platform the server runs on (POSIX)
linesep == <<NL>>

\* on write every \n becomes os.linesep
RECURSIVE write_text(_)
write_text(text) ==
    IF text = <<>> THEN <<>>
    ELSE (IF Head(text) = NL THEN linesep ELSE <<Head(text)>>)
         \o write_text(Tail(text))

(***************************************************************************)
(* server.py: the tag rewriter                                             *)
(***************************************************************************)

_format_tags_inline(tags) == <<"[">> \o join(tags, <<",", " ">>) \o <<"]">>

RECURSIVE rewriter_end_index(_, _)
rewriter_end_index(lines, i) ==
    IF i > Len(lines) THEN 0
    ELSE IF strip(lines[i]) = DELIM THEN i
    ELSE rewriter_end_index(lines, i + 1)

is_tags_line(raw) == startswith(lower(lstrip(raw)), <<"t","a","g","s",":">>)

\* the loop over front: every line that starts with "tags:" becomes the new
\* line; the new line is appended when none did
updated_front(front, new_tags_line) ==
    LET replaced == [i \in 1..Len(front) |->
                        IF is_tags_line(front[i]) THEN new_tags_line ELSE front[i]]
        found == \E i \in 1..Len(front) : is_tags_line(front[i])
    IN IF found THEN replaced ELSE Append(replaced, new_tags_line)

\* the text handed to write_text: only the front lines are changed
rewritten_text(lines, end_index, new_tags) ==
    LET open_delim == lines[1]
        front == SubSeq(lines, 2, end_index - 1)
        close_delim == lines[end_index]
        body == SubSeq(lines, end_index + 1, Len(lines))
        new_tags_line == <<"t","a","g","s",":"," ">>
                         \o _format_tags_inline(new_tags) \o <<NL>>
    IN open_delim \o join(updated_front(front, new_tags_line), <<>>)
       \o close_delim \o join(body, <<>>)

RewriteResult(err, file, end_index) ==
    [err |-> err, file |-> file, end_index |-> end_index]

File(data) == [readable |-> TRUE, data |-> data]

\* a rewriter that starts writing the output before it has found the closing
\* delimiter: an unterminated header leaves the file truncated
update_tags_writing_early(file, new_tags) ==
    IF ~file.readable THEN RewriteResult("read_error", file, 0)
    ELSE LET lines == splitlines(read_text(file.data), TRUE)
         IN IF lines = <<>> THEN RewriteResult("empty_file", file, 0)
            ELSE IF strip(lines[1]) # DELIM
            THEN RewriteResult("missing_frontmatter", file, 0)
            ELSE LET end_index == rewriter_end_index(lines, 2)
                 IN IF end_index = 0
                    THEN RewriteResult("unterminated_frontmatter",
                                       File(write_text(lines[1])), 0)
                    ELSE RewriteResult(
                             "ok",
                             File(write_text(rewritten_text(lines, end_index, new_tags))),
                             end_index)

\* file is [readable, data]; result: err = "ok" and the file as written, or
\* the exception raised and the file as it is left (no write was issued)
_update_tags_in_skill_md(file, new_tags) ==
    IF ~file.readable THEN RewriteResult("read_error", file, 0)
    ELSE LET text == read_text(file.data)
             lines == splitlines(text, TRUE)
         IN IF lines = <<>> THEN RewriteResult("empty_file", file, 0)
            ELSE IF strip(lines[1]) # DELIM
            THEN RewriteResult("missing_frontmatter", file, 0)
            ELSE LET end_index == rewriter_end_index(lines, 2)
                 IN IF end_index = 0
                    THEN RewriteResult("unterminated_frontmatter", file, 0)
                    ELSE RewriteResult(
                             "ok",
                             File(write_text(rewritten_text(lines, end_index, new_tags))),
                             end_index)

(***************************************************************************)
(* pathlib: a Path is [abs, parts]; parts are directory or file names      *)
(***************************************************************************)

AbsPath(parts) == [abs |-> TRUE, parts |-> parts]

\* str(path)
PathStr(path) ==
    IF path.abs THEN <<"/">> \o join(path.parts, <<"/">>)
    ELSE IF path.parts = <<>> THEN <<".">>
    ELSE join(path.parts, <<"/">>)

\* Path(text): empty and "." segments are dropped
PathOf(text) ==
    LET Kept(seg) == seg # <<>> /\ seg # <<".">>
    IN [abs |-> startswith(text, <<"/">>),
        parts |-> SelectSeq(split(text, "/"), Kept)]

\* path.name
PathName(path) == IF path.parts = <<>> THEN <<>> ELSE path.parts[Len(path.parts)]

IsPrefix(p, q) == Len(p) <= Len(q) /\ SubSeq(q, 1, Len(p)) = p

\* path.relative_to(root), as parts (root is a prefix of path)
RelativeParts(path, root) == SubSeq(path.parts, Len(root.parts) + 1, Len(path.parts))

SKILL_MD == <<"S","K","I","L","L",".","m","d">>

(***************************************************************************)
(* tags_registry.py: the registry is the set allowed_tags                  *)
(***************************************************************************)

RECURSIVE registry_from_lines(_, _)
registry_from_lines(raw_lines, allowed) ==
    IF raw_lines = <<>> THEN allowed
    ELSE LET line == strip(Head(raw_lines))
             line2 == IF startswith(line, <<"-">>) THEN strip(Tail(line)) ELSE line
             tag == lower(strip(line2))
         IN IF line = <<>> \/ startswith(line, <<"#">>) \/ tag = <<>>
            THEN registry_from_lines(Tail(raw_lines), allowed)
            ELSE registry_from_lines(Tail(raw_lines), allowed \cup {tag})

\* tfile, the tags file, is [exists, data]
load_tags_registry(tfile) ==
    IF ~tfile.exists THEN {}
    ELSE registry_from_lines(splitlines(read_text(tfile.data), FALSE), {})

(***************************************************************************)
(* scanner.py                                                              *)
(***************************************************************************)

_make_skill_id(source_root, skill_md_path) ==
    PathName(source_root) \o <<":">>
    \o join(RelativeParts(skill_md_path, source_root), <<"/">>)

_make_category_path(source_root, skill_md_path) ==
    LET parent == AbsPath(SubSeq(skill_md_path.parts, 1, Len(skill_md_path.parts) - 1))
        NonEmpty(seg) == seg # <<>>
    IN SelectSeq(RelativeParts(parent, source_root), NonEmpty)

\* A tree is a function from the key sequence walked from the root to the
\* node reached: [name, path, children (the keys of the dict), skills].
RootNode == [name |-> <<"/">>, path |-> <<>>, children |-> {}, skills |-> <<>>]
EmptyTree == [k \in {<<>>} |-> RootNode]

\* a child whose path is its own name only
add_child_flat_path(tree, key, part) ==
    LET child_key == Append(key, part)
        child == [name |-> part, path |-> <<part>>,
                  children |-> {}, skills |-> <<>>]
    IN [k \in DOMAIN tree \cup {child_key} |->
            IF k = child_key THEN child
            ELSE IF k = key THEN [tree[k] EXCEPT !.children = @ \cup {part}]
            ELSE tree[k]]

AddChild(tree, key, part) ==
    LET child_key == Append(key, part)
        child == [name |-> part, path |-> Append(tree[key].path, part),
                  children |-> {}, skills |-> <<>>]
    IN [k \in DOMAIN tree \cup {child_key} |->
            IF k = child_key THEN child
            ELSE IF k = key THEN [tree[k] EXCEPT !.children = @ \cup {part}]
            ELSE tree[k]]

RECURSIVE insert_walk(_, _, _, _)
insert_walk(tree, key, parts, record) ==
    IF parts = <<>>
    THEN [tree EXCEPT ![key].skills = Append(@, record)]
    ELSE LET part == Head(parts)
         IN IF part \in tree[key].children
            THEN insert_walk(tree, Append(key, part), Tail(parts), record)
            ELSE insert_walk(AddChild(tree, key, part), Append(key, part),
                             Tail(parts), record)

\* an insertion that never leaves the root node
insert_at_root(root, record) == [root EXCEPT ![<<>>].skills = Append(@, record)]

_insert_into_tree(root, record) == insert_walk(root, <<>>, record.category_path, record)

\* a validation that takes an empty allow-list to allow nothing
validate_tags_empty_rejects(tags, registry) ==
    IF tags = <<>> THEN << <<"m","i","s","s","i","n","g","_","t","a","g","s">> >>
    ELSE LET Invalid(t) == t \notin registry
             invalid_tags == SelectSeq(tags, Invalid)
         IN IF invalid_tags # <<>>
            THEN << <<"i","n","v","a","l","i","d","_","t","a","g","s",":">>
                    \o join(invalid_tags, <<",">>) >>
            ELSE <<>>

_validate_tags(tags, registry) ==
    IF tags = <<>> THEN << <<"m","i","s","s","i","n","g","_","t","a","g","s">> >>
    ELSE IF registry # {}
         THEN LET Invalid(t) == t \notin registry
                  invalid_tags == SelectSeq(tags, Invalid)
              IN IF invalid_tags # <<>>
                 THEN << <<"i","n","v","a","l","i","d","_","t","a","g","s",":">>
                         \o join(invalid_tags, <<",">>) >>
                 ELSE <<>>
         ELSE <<>>

ScanResult(skills, tree) == [skills |-> skills, tree |-> tree]

SkillRecord(root, skill_md_path, extracted, registry) ==
    [skill_id |-> _make_skill_id(root, skill_md_path),
     source_root |-> root,
     skill_path |-> skill_md_path,
     category_path |-> _make_category_path(root, skill_md_path),
     frontmatter |-> [title |-> extracted.title,
                      description |-> extracted.description,
                      tags |-> extracted.tags],
     description_snapshot |-> make_description_snapshot(extracted.description),
     tag_issues |-> _validate_tags(extracted.tags, registry)]

\* a scanner without the try/except around read and parse results: a document
\* that fails still yields a record, built from the empty header
scan_document_keeping_failures(scan, root, dir, fs, registry) ==
    LET skill_md_path == AbsPath(Append(dir, SKILL_MD))
        extracted == IF fs[dir].readable
                     THEN parse_skill_markdown(read_text(fs[dir].data))
                     ELSE ParseFailure("read_error")
        record == SkillRecord(root, skill_md_path, extracted, registry)
    IN ScanResult(Append(scan.skills, record), _insert_into_tree(scan.tree, record))

\* the body of the loop over root.rglob("SKILL.md") for one document
\* directory: the scan so far extended by the document's record, or left as
\* it is when reading or parsing raises
scan_document(scan, root, dir, fs, registry) ==
    LET skill_md_path == AbsPath(Append(dir, SKILL_MD))
        file == fs[dir]
    IN IF ~file.readable THEN scan
       ELSE LET extracted == parse_skill_markdown(read_text(file.data))
            IN IF extracted.err # "ok" THEN scan
               ELSE LET record == SkillRecord(root, skill_md_path, extracted, registry)
                    IN ScanResult(Append(scan.skills, record),
                                  _insert_into_tree(scan.tree, record))

RECURSIVE scan_root(_, _, _, _, _)
scan_root(scan, root, dirs, fs, registry) ==
    IF dirs = <<>> THEN scan
    ELSE scan_root(scan_document(scan, root, Head(dirs), fs, registry),
                   root, Tail(dirs), fs, registry)

\* the documents root.rglob("SKILL.md") yields: those below the root, in the
\* order the file system enumerates them (order: all document directories)
rglob(root, fs, order) ==
    LET Below(dir) == dir \in DOMAIN fs /\ IsPrefix(root.parts, dir)
    IN SelectSeq(order, Below)

\* roots: sequence of paths; fs: the files on disk; kinds[i]: "dir", "missing" or "file"
RECURSIVE scan_roots(_, _, _, _, _, _, _)
scan_roots(scan, roots, i, kinds, fs, registry, order) ==
    IF i > Len(roots) THEN scan
    ELSE IF kinds[i] # "dir"
    THEN scan_roots(scan, roots, i + 1, kinds, fs, registry, order)
    ELSE scan_roots(scan_root(scan, roots[i], rglob(roots[i], fs, order),
                              fs, registry),
                    roots, i + 1, kinds, fs, registry, order)

scan_skills(roots, kinds, fs, registry, order) ==
    scan_roots(ScanResult(<<>>, EmptyTree), roots, 1, kinds, fs, registry, order)

(***************************************************************************)
(* JSON values, as json.loads returns them.  Every value is [k, s, items]: *)
(* k the kind, s the text of a scalar (or the key of an object member),    *)
(* items the elements of a list or the members ("pair") of an object.      *)
(***************************************************************************)

J(k, s, items) == [k |-> k, s |-> s, items |-> items]
JNull == J("null", <<>>, <<>>)
JBool(b) == J("bool", IF b THEN <<"t","r","u","e">> ELSE <<"f","a","l","s","e">>, <<>>)
JInt(digits) == J("int", digits, <<>>)
JFloat(digits) == J("float", digits, <<>>)
JStr(text) == J("str", text, <<>>)
JList(items) == J("list", <<>>, items)
JPair(key, value) == J("pair", key, <<value>>)
JObj(pairs) == J("obj", <<>>, pairs)

HasKey(obj, key) == \E i \in 1..Len(obj.items) : obj.items[i].s = key

\* dict.get(key, default)
Get(obj, key, default) ==
    IF HasKey(obj, key)
    THEN LET i == CHOOSE n \in 1..Len(obj.items) :
                      /\ obj.items[n].s = key
                      /\ \A m \in (n + 1)..Len(obj.items) : obj.items[m].s # key
         IN obj.items[i].items[1]
    ELSE default

\* x == 1 in python: the int 1, the float 1.0 and True
PyEqualsOne(j) ==
    \/ j.k = "int" /\ j.s = <<"1">>
    \/ j.k = "float" /\ j.s = <<"1", ".", "0">>
    \/ j.k = "bool" /\ j.s = <<"t","r","u","e">>

\* str(x) and repr(x) of a loaded JSON value
RECURSIVE PyStr(_)
RECURSIVE PyRepr(_)
PyStr(j) ==
    IF j.k = "str" \/ j.k = "int" \/ j.k = "float" THEN j.s
    ELSE IF j.k = "null" THEN <<"N","o","n","e">>
    ELSE IF j.k = "bool"
         THEN (IF j.s = <<"t","r","u","e">> THEN <<"T","r","u","e">>
               ELSE <<"F","a","l","s","e">>)
    ELSE IF j.k = "list"
         THEN <<"[">> \o join([i \in 1..Len(j.items) |-> PyRepr(j.items[i])],
                              <<",", " ">>) \o <<"]">>
    ELSE <<"{">> \o join([i \in 1..Len(j.items) |->
                            <<"'">> \o j.items[i].s \o <<"'", ":", " ">>
                            \o PyRepr(j.items[i].items[1])],
                         <<",", " ">>) \o <<"}">>

PyRepr(j) == IF j.k = "str" THEN <<"'">> \o j.s \o <<"'">> ELSE PyStr(j)

\* iterating a value: the elements of a list, the characters of a str, the
\* keys of a dict; anything else raises TypeError (ok = FALSE)
PyIter(j) ==
    IF j.k = "list" THEN [ok |-> TRUE, items |-> j.items]
    ELSE IF j.k = "str"
         THEN [ok |-> TRUE, items |-> [i \in 1..Len(j.s) |-> JStr(<<j.s[i]>>)]]
    ELSE IF j.k = "obj"
         THEN [ok |-> TRUE, items |-> [i \in 1..Len(j.items) |-> JStr(j.items[i].s)]]
    ELSE [ok |-> FALSE, items |-> <<>>]

(***************************************************************************)
(* index_store.py                                                          *)
(***************************************************************************)

StrList(texts) == JList([i \in 1..Len(texts) |-> JStr(texts[i])])

K_skill_id == <<"s","k","i","l","l","_","i","d">>
K_source_root == <<"s","o","u","r","c","e","_","r","o","o","t">>
K_skill_path == <<"s","k","i","l","l","_","p","a","t","h">>
K_category_path == <<"c","a","t","e","g","o","r","y","_","p","a","t","h">>
K_title == <<"t","i","t","l","e">>
K_description == <<"d","e","s","c","r","i","p","t","i","o","n">>
K_tags == <<"t","a","g","s">>
K_description_snapshot == <<"d","e","s","c","r","i","p","t","i","o","n","_","s","n","a","p","s","h","o","t">>
K_tag_issues == <<"t","a","g","_","i","s","s","u","e","s">>
K_version == <<"v","e","r","s","i","o","n">>
K_skills == <<"s","k","i","l","l","s">>

_skill_to_dict(skill) ==
    JObj(<< JPair(K_skill_id, JStr(skill.skill_id)),
            JPair(K_source_root, JStr(PathStr(skill.source_root))),
            JPair(K_skill_path, JStr(PathStr(skill.skill_path))),
            JPair(K_category_path, StrList(skill.category_path)),
            JPair(K_title, JStr(skill.frontmatter.title)),
            JPair(K_description, JStr(skill.frontmatter.description)),
            JPair(K_tags, StrList(skill.frontmatter.tags)),
            JPair(K_description_snapshot, JStr(skill.description_snapshot)),
            JPair(K_tag_issues, StrList(skill.tag_issues)) >>)

\* tuple(str(t) for t in value if str(t).strip())
StrTuple(value) ==
    LET it == PyIter(value)
        strs == [i \in 1..Len(it.items) |-> PyStr(it.items[i])]
        NonBlank(t) == strip(t) # <<>>
    IN [ok |-> it.ok, val |-> SelectSeq(strs, NonBlank)]

\* None when the conversion raises TypeError, else Some(record)
_dict_to_skill(data) ==
    LET tags == StrTuple(Get(data, K_tags, JList(<<>>)))
        category_path == StrTuple(Get(data, K_category_path, JList(<<>>)))
        tag_issues == StrTuple(Get(data, K_tag_issues, JList(<<>>)))
    IN IF ~(tags.ok /\ category_path.ok /\ tag_issues.ok) THEN None
       ELSE Some([skill_id |-> PyStr(Get(data, K_skill_id, JStr(<<>>))),
                  source_root |-> PathOf(PyStr(Get(data, K_source_root, JStr(<<>>)))),
                  skill_path |-> PathOf(PyStr(Get(data, K_skill_path, JStr(<<>>)))),
                  category_path |-> category_path.val,
                  frontmatter |->
                      [title |-> PyStr(Get(data, K_title, JStr(<<>>))),
                       description |-> PyStr(Get(data, K_description, JStr(<<>>))),
                       tags |-> tags.val],
                  description_snapshot |->
                      PyStr(Get(data, K_description_snapshot, JStr(<<>>))),
                  tag_issues |-> tag_issues.val])

RECURSIVE build_tree_walk(_, _, _, _)
build_tree_walk(tree, key, parts, record) ==
    IF parts = <<>>
    THEN [tree EXCEPT ![key].skills = Append(@, record)]
    ELSE LET part == Head(parts)
         IN IF part \in tree[key].children
            THEN build_tree_walk(tree, Append(key, part), Tail(parts), record)
            ELSE build_tree_walk(AddChild(tree, key, part), Append(key, part),
                                 Tail(parts), record)

RECURSIVE build_tree_from(_, _)
build_tree_from(tree, skills) ==
    IF skills = <<>> THEN tree
    ELSE build_tree_from(build_tree_walk(tree, <<>>, Head(skills).category_path,
                                         Head(skills)),
                         Tail(skills))

build_tree(skills) == build_tree_from(EmptyTree, skills)

\* A cache file is [kind, value]: kind "absent" (no regular file), "garbage"
\* (content json.loads rejects) or "json" with the value json.loads returns.
CacheAbsent == [kind |-> "absent", value |-> JNull]
CacheGarbage == [kind |-> "garbage", value |-> JNull]
CacheJson(value) == [kind |-> "json", value |-> value]

\* the file save_index writes
save_index(scan) ==
    CacheJson(JObj(<< JPair(K_version, JInt(<<"1">>)),
                      JPair(K_skills,
                            JList([i \in 1..Len(scan.skills) |->
                                      _skill_to_dict(scan.skills[i])])) >>))

LoadResult(outcome, scan) == [outcome |-> outcome, scan |-> scan]

\* the loop over items: None when _dict_to_skill raises
RECURSIVE load_items(_, _)
load_items(items, skills) ==
    IF items = <<>> THEN Some(skills)
    ELSE IF Head(items).k # "obj" THEN load_items(Tail(items), skills)
    ELSE LET skill == _dict_to_skill(Head(items))
         IN IF skill = None THEN None
            ELSE load_items(Tail(items), Append(skills, skill[1]))

\* outcome "absent" (None returned), "ok" (a ScanResult) or "raised"
load_index(cfile) ==
    IF cfile.kind # "json" THEN LoadResult("absent", None)
    ELSE LET data == cfile.value
         IN IF data.k # "obj" \/ ~PyEqualsOne(Get(data, K_version, JNull))
            THEN LoadResult("absent", None)
            ELSE LET items == Get(data, K_skills, JList(<<>>))
                 IN IF items.k # "list" THEN LoadResult("absent", None)
                    ELSE LET skills == load_items(items.items, <<>>)
                         IN IF skills = None THEN LoadResult("raised", None)
                            ELSE LoadResult("ok",
                                     Some(ScanResult(skills[1], build_tree(skills[1]))))

(***************************************************************************)
(* The bounded inputs of the library-level runs                            *)
(***************************************************************************)

MaxLines == 4
MaxCacheItems == 2

L_title == <<"t","i","t","l","e",":"," ","X">>
L_tags == <<"t","a","g","s",":"," ","[","a","]">>
L_tags_block == <<" ","T","a","g","s",":">>
L_item == <<"-"," ","c">>

LineVocab == {DELIM, L_title, L_tags, L_tags_block, L_item}

\* line terminator, final terminator present, leading byte-order mark
DocStyles ==
    { [eol |-> <<NL>>, final |-> TRUE, bom |-> FALSE],
      [eol |-> <<NL>>, final |-> FALSE, bom |-> FALSE],
      [eol |-> <<CR, NL>>, final |-> TRUE, bom |-> FALSE],
      [eol |-> <<NL>>, final |-> TRUE, bom |-> TRUE] }

BuildDoc(ls, style) ==
    (IF style.bom THEN <<BOM>> ELSE <<>>)
    \o join(ls, style.eol)
    \o (IF style.final /\ ls # <<>> THEN style.eol ELSE <<>>)

DocTexts ==
    { BuildDoc(ls, style) :
        ls \in UNION { [1..n -> LineVocab] : n \in 0..MaxLines },
        style \in DocStyles }

\* documents with a delimited header: up to MaxLines - 1 header lines that
\* name the title, the description and the tags
L_name == <<"n","a","m","e",":"," ","N">>
L_desc == <<"d","e","s","c","r","i","p","t","i","o","n",":"," ","\"","Y","\"">>
L_title_empty == <<"t","i","t","l","e",":">>

HeaderVocab == {L_title, L_name, L_desc, L_title_empty, L_tags}

HeaderDocTexts ==
    { BuildDoc(<<DELIM>> \o h \o <<DELIM>>, [eol |-> <<NL>>, final |-> TRUE, bom |-> FALSE]) :
        h \in UNION { [1..n -> HeaderVocab] : n \in 0..(MaxLines - 1) } }

TagA == <<"a">>
TagB == <<"b">>
TagC == <<"c">>
TagComma == <<"a", ",", "b">>
NewTagChoices == { <<TagB>>, <<TagB, TagC>>, <<TagComma>> }

\* the configured roots /a, /b, /c and /a:b, and the directories that may
\* hold a SKILL.md: /a, /a/x, /b/x and "/b/ " (a directory whose name is one
\* space), or /a, /a/b:x and /a:b/x (names that hold a colon)
DirA == <<"a">>
DirB == <<"b">>
DirC == <<"c">>
DirX == <<"x">>
DirSpace == <<" ">>
DirAColonB == <<"a", ":", "b">>
DirBColonX == <<"b", ":", "x">>

Roots == << AbsPath(<<DirA>>), AbsPath(<<DirB>>), AbsPath(<<DirC>>),
           AbsPath(<<DirAColonB>>) >>

DocDirs == { <<DirA>>, <<DirA, DirX>>, <<DirB, DirX>>, <<DirB, DirSpace>> }
ColonDocDirs == { <<DirA>>, <<DirA, DirBColonX>>, <<DirAColonB, DirX>> }

ValidDoc ==
    <<"-","-","-",NL>>
    \o <<"n","a","m","e",":"," ","X",NL>>
    \o <<"d","e","s","c","r","i","p","t","i","o","n",":"," ","Y",NL>>
    \o <<"t","a","g","s",":"," ","a",NL>>
    \o <<"-","-","-",NL>>

InvalidDoc == <<"t","i","t","l","e",":"," ","X",NL>>

Unreadable == [readable |-> FALSE, data |-> <<>>]

DocFiles == { File(ValidDoc), File(InvalidDoc), Unreadable }

FileSystems ==
    UNION { [D -> DocFiles] : D \in (SUBSET DocDirs) \cup (SUBSET ColonDocDirs) }

NoFiles == [d \in {} |-> Unreadable]

\* /a is a directory, /c is a regular file, /b and /a:b are directories
\* when they hold documents and are missing otherwise
RootKindOf(fs) ==
    [i \in 1..Len(Roots) |->
        IF i = 1 THEN "dir"
        ELSE IF i = 3 THEN "file"
        ELSE IF \E d \in DOMAIN fs : IsPrefix(Roots[i].parts, d)
             THEN "dir" ELSE "missing"]

Registries == { {}, {TagB} }

\* the orders in which the file system may enumerate the documents
Orders(fs) ==
    { o \in [1..Cardinality(DOMAIN fs) -> DOMAIN fs] :
        \A i, j \in DOMAIN o : i # j => o[i] # o[j] }

\* records a caller may hold that no scan of the directories above yields
GivenRecord(category_path, tags) ==
    [skill_id |-> <<"a",":","S">>,
     source_root |-> AbsPath(<<DirA>>),
     skill_path |-> AbsPath(<<DirA, SKILL_MD>>),
     category_path |-> category_path,
     frontmatter |-> [title |-> <<"X">>, description |-> <<"Y">>, tags |-> tags],
     description_snapshot |-> <<"Y">>,
     tag_issues |-> <<>>]

GivenRecords ==
    { GivenRecord(<<>>, <<TagA>>),
      GivenRecord(<<DirX>>, <<TagA, TagB>>),
      GivenRecord(<<DirX, DirSpace>>, <<TagA>>) }

GivenScans ==
    { ScanResult(skills, build_tree(skills)) :
        skills \in UNION { [1..n -> GivenRecords] : n \in 0..MaxCacheItems } }

\* cache file contents: well- and ill-formed payloads
SkillItems ==
    { JInt(<<"3">>),
      JObj(<<>>),
      _skill_to_dict(GivenRecord(<<DirX>>, <<TagA>>)),
      JObj(<< JPair(K_tags, JInt(<<"5">>)) >>),
      JObj(<< JPair(K_category_path, JNull) >>),
      JObj(<< JPair(K_tag_issues, JBool(TRUE)) >>),
      JObj(<< JPair(K_tags, JStr(<<"a", "b">>)),
              JPair(K_title, JList(<< JStr(<<"a">>), JNull >>)),
              JPair(K_category_path, JObj(<< JPair(<<"k">>, JInt(<<"1">>)) >>)) >>) }

SkillLists == UNION { [1..n -> SkillItems] : n \in 0..MaxCacheItems }

VersionMembers ==
    { <<>> }
    \cup { << JPair(K_version, v) >> :
             v \in { JInt(<<"1">>), JInt(<<"2">>), JStr(<<"1">>), JBool(TRUE),
                     JFloat(<<"1", ".", "0">>), JNull } }

SkillsMembers ==
    { <<>> }
    \cup { << JPair(K_skills, v) >> :
             v \in { JNull, JStr(<<"a", "b">>), JObj(<<>>) }
                   \cup { JList(l) : l \in SkillLists } }

CacheFiles ==
    { CacheAbsent, CacheGarbage, CacheJson(JList(<<>>)), CacheJson(JStr(<<"x">>)) }
    \cup { CacheJson(JObj(v \o sk)) : v \in VersionMembers, sk \in SkillsMembers }

(***************************************************************************)
(* The server at rest: no tool invocation has arrived                      *)
(***************************************************************************)

Threads == {"t1", "t2"}
NoThread == "none"

EmptyFrame == [registry |-> {}, allowed |-> {}, i |-> 0, results |-> <<>>, scan |-> None]
NoCall == [tool |-> "none", path |-> <<>>, query |-> <<>>, tags |-> <<>>,
           skill_id |-> <<>>, mode |-> <<>>, updates |-> <<>>]

ServerIdle ==
    /\ tags_file = [exists |-> FALSE, data |-> <<>>]
    /\ state = [registry |-> None, scan |-> None]
    /\ state_lock = NoThread
    /\ pc = [t \in Threads |-> "idle"]
    /\ call = [t \in Threads |-> NoCall]
    /\ frame = [t \in Threads |-> EmptyFrame]
    /\ ret = [t \in Threads |-> None]
    /\ ncalls = 0

(***************************************************************************)
(* Library-level runs of the parser and the rewriter on one document: any  *)
(* number of parses, one rewrite per run                                   *)
(***************************************************************************)

InitText ==
    /\ doc \in { File(t) : t \in DocTexts \cup HeaderDocTexts }
    /\ parsed = None
    /\ rw = None
    /\ validated = None
    /\ files = NoFiles
    /\ root_kind = RootKindOf(NoFiles)
    /\ cache_file = CacheAbsent
    /\ cache_src = None
    /\ mem = None
    /\ loaded = None
    /\ ServerIdle

\* the scanner's use of the parser: read the file, parse the text
ParseDoc ==
    /\ parsed' = Some([input |-> doc,
                       res |-> parse_skill_markdown(read_text(doc.data))])
    /\ UNCHANGED <<doc, rw, validated>>
    /\ UNCHANGED <<indexVars, serverVars>>

RewriteDoc ==
    \E new_tags \in NewTagChoices :
        LET r == _update_tags_in_skill_md(doc, new_tags)
        IN /\ rw = None
           /\ rw' = Some([before |-> doc, new_tags |-> new_tags,
                          err |-> r.err, end_index |-> r.end_index])
           /\ doc' = r.file
           /\ UNCHANGED <<parsed, validated>>
           /\ UNCHANGED <<indexVars, serverVars>>

NextText == ParseDoc \/ RewriteDoc

SpecText == InitText /\ [][NextText]_vars

(***************************************************************************)
(* Library-level runs of the tag validation: one call per run              *)
(***************************************************************************)

MaxTags == 3

TagSeqs == UNION { [1..n -> {TagA, TagB, TagC}] : n \in 0..MaxTags }
AllowLists == SUBSET {TagA, TagB, TagC}

InitValidate ==
    /\ doc = File(<<>>)
    /\ parsed = None
    /\ rw = None
    /\ validated = None
    /\ files = NoFiles
    /\ root_kind = RootKindOf(NoFiles)
    /\ cache_file = CacheAbsent
    /\ cache_src = None
    /\ mem = None
    /\ loaded = None
    /\ ServerIdle

ValidateTags ==
    /\ validated = None
    /\ \E tags \in TagSeqs, allowed \in AllowLists :
          validated' = Some([tags |-> tags, allowed |-> allowed,
                             issues |-> _validate_tags(tags, allowed)])
    /\ UNCHANGED <<doc, parsed, rw>>
    /\ UNCHANGED <<indexVars, serverVars>>

NextValidate == ValidateTags

SpecValidate == InitValidate /\ [][NextValidate]_vars

(***************************************************************************)
(* Library-level runs of the scanner and the index cache: one scan, one    *)
(* save and one load per run                                               *)
(***************************************************************************)

InitIndex ==
    /\ doc = File(<<>>)
    /\ parsed = None
    /\ rw = None
    /\ validated = None
    /\ cache_src = None
    /\ loaded = None
    /\ \/ /\ files \in FileSystems
          /\ cache_file = CacheAbsent
          /\ mem = None
       \/ /\ files = NoFiles
          /\ cache_file \in CacheFiles
          /\ mem = None
       \/ /\ files = NoFiles
          /\ cache_file = CacheAbsent
          /\ mem \in { Some([origin |-> "given", scan |-> r]) : r \in GivenScans }
    /\ root_kind = RootKindOf(files)
    /\ ServerIdle

ScanSkills ==
    /\ mem = None
    /\ \E registry \in Registries, order \in Orders(files) :
          mem' = Some([origin |-> "scan",
                       scan |-> scan_skills(Roots, root_kind, files, registry, order)])
    /\ UNCHANGED <<files, root_kind, cache_file, cache_src, loaded>>
    /\ UNCHANGED <<textVars, serverVars>>

SaveIndex ==
    /\ mem # None
    /\ cache_src = None
    /\ cache_file' = save_index(mem[1].scan)
    /\ cache_src' = Some(mem[1].scan)
    /\ UNCHANGED <<files, root_kind, mem, loaded>>
    /\ UNCHANGED <<textVars, serverVars>>

LoadIndex ==
    /\ loaded = None
    /\ loaded' = Some([file |-> cache_file, src |-> cache_src,
                       res |-> load_index(cache_file)])
    /\ UNCHANGED <<files, root_kind, cache_file, cache_src, mem>>
    /\ UNCHANGED <<textVars, serverVars>>

NextIndex == ScanSkills \/ SaveIndex \/ LoadIndex

SpecIndex == InitIndex /\ [][NextIndex]_vars

(***************************************************************************)
(* server.py: the tools and the shared state                               *)
(***************************************************************************)

_parse_path_arg(path) ==
    LET NonEmpty(seg) == seg # <<>>
    IN SelectSeq(split(path, "/"), NonEmpty)

\* None when a segment is not among the children, else Some(node)
_find_node(tree, path) ==
    IF \A j \in 1..Len(path) : path[j] \in tree[SubSeq(path, 1, j - 1)].children
    THEN Some(tree[path])
    ELSE None

_summarize_skill(skill) ==
    [skill_id |-> skill.skill_id,
     title |-> skill.frontmatter.title,
     description_snapshot |-> skill.description_snapshot,
     tags |-> skill.frontmatter.tags,
     tag_issues |-> skill.tag_issues,
     category_path |-> skill.category_path]

Summaries(skills) == [i \in 1..Len(skills) |-> _summarize_skill(skills[i])]

\* q in hay
IsSubstring(q, hay) ==
    \E i \in 0..(Len(hay) - Len(q)) : SubSeq(hay, i + 1, i + Len(q)) = q

\* the file at a path: None when there is no such file
FileAt(fs, path) ==
    IF /\ path.abs
       /\ path.parts # <<>>
       /\ path.parts[Len(path.parts)] = SKILL_MD
       /\ SubSeq(path.parts, 1, Len(path.parts) - 1) \in DOMAIN fs
    THEN Some(fs[SubSeq(path.parts, 1, Len(path.parts) - 1)])
    ELSE None

DirOf(path) == SubSeq(path.parts, 1, Len(path.parts) - 1)

Return(t, value) ==
    /\ ret' = [ret EXCEPT ![t] = Some(value)]
    /\ pc' = [pc EXCEPT ![t] = "idle"]

\* the tool invocations that may arrive
IdA == <<"a",":","S","K","I","L","L",".","m","d">>
IdBX == <<"b",":","x","/","S","K","I","L","L",".","m","d">>
IdUnknown == <<"z">>

S_list == <<"l","i","s","t">>
S_apply == <<"a","p","p","l","y">>

\* one update request, a dict: {"skill_id": ..., "tags": [...]}
Update(skill_id, tags) ==
    JObj(<< JPair(K_skill_id, JStr(skill_id)), JPair(K_tags, StrList(tags)) >>)

\* {"skill_id": ..., "tags": null}
UpdateNullTags(skill_id) ==
    JObj(<< JPair(K_skill_id, JStr(skill_id)), JPair(K_tags, JNull) >>)

MaxCalls == 2

ToolCalls ==
    { [NoCall EXCEPT !.tool = "list_skill_tree", !.path = p] :
          p \in { <<>>, <<"x">>, <<"/","q">> } }
    \cup { [NoCall EXCEPT !.tool = "search_skills", !.query = <<" ","X"," ">>],
           [NoCall EXCEPT !.tool = "search_skills", !.tags = << <<"A">> >>] }
    \cup { [NoCall EXCEPT !.tool = "get_skill_details", !.skill_id = id] :
              id \in { IdA, IdUnknown } }
    \cup { [NoCall EXCEPT !.tool = "update_tags", !.mode = m] :
              m \in { <<>>, <<" ","L","i","s","t">>, <<"x">>, S_apply } }
    \cup { [NoCall EXCEPT !.tool = "update_tags", !.mode = S_apply, !.updates = u] :
              u \in { << Update(IdA, <<TagB>>) >>,
                      << Update(IdA, <<TagA>>) >>,
                      << Update(IdBX, <<TagB>>), Update(IdA, <<<<" ","A">>, TagA>>) >>,
                      << Update(<<>>, <<TagA>>), Update(IdUnknown, <<TagA>>) >>,
                      << Update(IdA, <<>>), Update(IdA, <<TagC>>) >>,
                      << Update(IdA, <<TagB>>), UpdateNullTags(IdA) >>,
                      << JObj(<<>>) >> } }

BomDoc == <<BOM>> \o ValidDoc

ServerFiles == [d \in { <<DirA>>, <<DirB, DirX>> } |->
                   IF d = <<DirA>> THEN File(ValidDoc) ELSE File(BomDoc)]

TagsFiles ==
    { [exists |-> FALSE, data |-> <<>>],
      [exists |-> TRUE,
       data |-> <<"a", NL, "-", " ", "B", CR, NL, "#", "c", NL, NL>>] }

\* a cache file left by an earlier run, when /a/SKILL.md held tags b and the
\* tags registry allowed a only
StaleRecord ==
    [GivenRecord(<<>>, <<TagB>>) EXCEPT
        !.skill_id = IdA,
        !.tag_issues = _validate_tags(<<TagB>>, {TagA})]

StaleCache == save_index(ScanResult(<< StaleRecord >>, build_tree(<< StaleRecord >>)))

CorruptCache ==
    CacheJson(JObj(<< JPair(K_version, JInt(<<"1">>)),
                      JPair(K_skills,
                            JList(<< JObj(<< JPair(K_tags, JInt(<<"5">>)) >>) >>)) >>))

Init ==
    /\ doc = File(<<>>)
    /\ parsed = None
    /\ rw = None
    /\ validated = None
    /\ files = ServerFiles
    /\ root_kind = RootKindOf(ServerFiles)
    /\ cache_file \in { CacheAbsent, StaleCache, CorruptCache }
    /\ cache_src = None
    /\ mem = None
    /\ loaded = None
    /\ tags_file \in TagsFiles
    /\ state = [registry |-> None, scan |-> None]
    /\ state_lock = NoThread
    /\ pc = [t \in Threads |-> "idle"]
    /\ call = [t \in Threads |-> NoCall]
    /\ frame = [t \in Threads |-> EmptyFrame]
    /\ ret = [t \in Threads |-> None]
    /\ ncalls = 0

\* a tool invocation arrives on thread t; every tool starts with
\* _ensure_state_loaded
Invoke(t) ==
    /\ pc[t] = "idle"
    /\ ncalls < MaxCalls
    /\ \E c \in ToolCalls : call' = [call EXCEPT ![t] = c]
    /\ pc' = [pc EXCEPT ![t] = "ensure"]
    /\ frame' = [frame EXCEPT ![t] = EmptyFrame]
    /\ ncalls' = ncalls + 1
    /\ UNCHANGED <<tags_file, state, state_lock, ret>>
    /\ UNCHANGED <<textVars, indexVars>>

\* _ensure_state_loaded: "with state_lock:" and the test of the state
EnsureEnter(t) ==
    /\ pc[t] = "ensure"
    /\ state_lock = NoThread
    /\ IF state.registry # None /\ state.scan # None
       THEN /\ pc' = [pc EXCEPT ![t] = "body"]
            /\ UNCHANGED state_lock
       ELSE /\ pc' = [pc EXCEPT ![t] = "ensure_load"]
            /\ state_lock' = t
    /\ UNCHANGED <<tags_file, state, call, frame, ret, ncalls>>
    /\ UNCHANGED <<textVars, indexVars>>

\* load_tags_registry and load_index, under the lock
EnsureLoad(t) ==
    /\ pc[t] = "ensure_load"
    /\ LET registry == load_tags_registry(tags_file)
           r == load_index(cache_file)
       IN IF r.outcome = "raised"
          THEN /\ Return(t, [tool |-> call[t].tool, raised |-> "TypeError"])
               /\ state_lock' = NoThread
               /\ UNCHANGED <<state, frame>>
          ELSE IF r.outcome = "absent"
          THEN /\ pc' = [pc EXCEPT ![t] = "ensure_scan"]
               /\ frame' = [frame EXCEPT ![t].registry = registry]
               /\ UNCHANGED <<state, state_lock, ret>>
          ELSE /\ state' = [registry |-> Some(registry), scan |-> r.scan]
               /\ state_lock' = NoThread
               /\ pc' = [pc EXCEPT ![t] = "body"]
               /\ UNCHANGED <<frame, ret>>
    /\ UNCHANGED <<tags_file, call, ncalls>>
    /\ UNCHANGED <<textVars, indexVars>>

\* the cache missed: scan_skills, under the lock
EnsureScan(t) ==
    /\ pc[t] = "ensure_scan"
    /\ \E order \in Orders(files) :
          frame' = [frame EXCEPT ![t].scan =
                       Some(scan_skills(Roots, root_kind, files,
                                        frame[t].registry, order))]
    /\ pc' = [pc EXCEPT ![t] = "ensure_save"]
    /\ UNCHANGED <<tags_file, state, state_lock, call, ret, ncalls>>
    /\ UNCHANGED <<textVars, indexVars>>

\* save_index, the two stores into state, and the release of the lock
EnsureSave(t) ==
    /\ pc[t] = "ensure_save"
    /\ cache_file' = save_index(frame[t].scan[1])
    /\ state' = [registry |-> Some(frame[t].registry), scan |-> frame[t].scan]
    /\ state_lock' = NoThread
    /\ pc' = [pc EXCEPT ![t] = "body"]
    /\ UNCHANGED <<tags_file, call, frame, ret, ncalls>>
    /\ UNCHANGED <<textVars, files, root_kind, cache_src, mem, loaded>>

list_skill_tree(t) ==
    /\ pc[t] = "body"
    /\ call[t].tool = "list_skill_tree"
    /\ LET parts == _parse_path_arg(call[t].path)
           node == _find_node(state.scan[1].tree, parts)
       IN IF node = None
          THEN Return(t, [tool |-> "list_skill_tree", ok |-> FALSE,
                          error |-> "path_not_found", path |-> parts])
          ELSE Return(t, [tool |-> "list_skill_tree", ok |-> TRUE, path |-> parts,
                          categories |-> node[1].children,
                          skills |-> Summaries(node[1].skills)])
    /\ UNCHANGED <<tags_file, state, state_lock, call, frame, ncalls>>
    /\ UNCHANGED <<textVars, indexVars>>

search_skills(t) ==
    /\ pc[t] = "body"
    /\ call[t].tool = "search_skills"
    /\ LET q == lower(strip(call[t].query))
           filter_tags == normalize_tags(call[t].tags)
           Hay(s) == lower(join(<<s.skill_id, s.frontmatter.title,
                                  s.description_snapshot,
                                  join(s.category_path, <<"/">>)>>, <<" ">>))
           Match(s) ==
               /\ q # <<>> => IsSubstring(q, Hay(s))
               /\ filter_tags # <<>> =>
                     \A i \in 1..Len(filter_tags) :
                         InSeq(s.frontmatter.tags, filter_tags[i])
           results == Summaries(SelectSeq(state.scan[1].skills, Match))
       IN Return(t, [tool |-> "search_skills", ok |-> TRUE,
                     count |-> Len(results), results |-> results])
    /\ UNCHANGED <<tags_file, state, state_lock, call, frame, ncalls>>
    /\ UNCHANGED <<textVars, indexVars>>

get_skill_details(t) ==
    /\ pc[t] = "body"
    /\ call[t].tool = "get_skill_details"
    /\ LET Is(s) == s.skill_id = call[t].skill_id
           found == SelectSeq(state.scan[1].skills, Is)
       IN IF found = <<>>
          THEN Return(t, [tool |-> "get_skill_details", ok |-> FALSE,
                          error |-> "skill_not_found"])
          ELSE LET file == FileAt(files, found[1].skill_path)
               IN IF file = None \/ ~file[1].readable
                  THEN Return(t, [tool |-> "get_skill_details", raised |-> "OSError"])
                  ELSE Return(t, [tool |-> "get_skill_details", ok |-> TRUE,
                                  skill_id |-> found[1].skill_id,
                                  content |-> read_text(file[1].data)])
    /\ UNCHANGED <<tags_file, state, state_lock, call, frame, ncalls>>
    /\ UNCHANGED <<textVars, indexVars>>

\* update_tags up to the loop over updates
update_tags(t) ==
    /\ pc[t] = "body"
    /\ call[t].tool = "update_tags"
    /\ LET m == lower(strip(IF call[t].mode = <<>> THEN S_list ELSE call[t].mode))
           HasIssues(s) == s.tag_issues # <<>>
           bad == SelectSeq(state.scan[1].skills, HasIssues)
       IN IF m = S_list
          THEN /\ Return(t, [tool |-> "update_tags", ok |-> TRUE,
                             count |-> Len(bad), skills |-> Summaries(bad)])
               /\ UNCHANGED frame
          ELSE IF m # S_apply
          THEN /\ Return(t, [tool |-> "update_tags", ok |-> FALSE,
                             error |-> "invalid_mode"])
               /\ UNCHANGED frame
          ELSE IF call[t].updates = <<>>
          THEN /\ Return(t, [tool |-> "update_tags", ok |-> FALSE,
                             error |-> "missing_updates"])
               /\ UNCHANGED frame
          ELSE /\ frame' = [frame EXCEPT ![t].allowed = state.registry[1],
                                         ![t].i = 1, ![t].results = <<>>]
               /\ pc' = [pc EXCEPT ![t] = "apply_loop"]
               /\ UNCHANGED ret
    /\ UNCHANGED <<tags_file, state, state_lock, call, ncalls>>
    /\ UNCHANGED <<textVars, indexVars>>

Outcome(ok, skill_id, error, tags, detail) ==
    [ok |-> ok, skill_id |-> skill_id, error |-> error, tags |-> tags,
     detail |-> detail]

\* str(upd.get("skill_id", "")).strip()
RequestedId(upd) == strip(PyStr(Get(upd, K_skill_id, JStr(<<>>))))

\* one iteration of the loop over updates: the outcome appended to results
\* and the files as the iteration leaves them; raised is the exception that
\* leaves the loop ("" when the iteration ends normally)
apply_update(upd, allowed, skills, fs) ==
    LET skill_id == RequestedId(upd)
        raw_tags == PyIter(Get(upd, K_tags, JList(<<>>)))
        tags_tuple == normalize_tags([i \in 1..Len(raw_tags.items) |->
                                         PyStr(raw_tags.items[i])])
        Invalid(tg) == tg \notin allowed
        invalid == SelectSeq(tags_tuple, Invalid)
        Is(s) == s.skill_id = skill_id
        found == SelectSeq(skills, Is)
    IN IF ~raw_tags.ok
       THEN [raised |-> "TypeError", fs |-> fs,
             out |-> Outcome(FALSE, skill_id, "", <<>>, "")]
       ELSE IF skill_id = <<>>
       THEN [raised |-> "", fs |-> fs, out |-> Outcome(FALSE, <<>>, "missing_skill_id", <<>>, "")]
       ELSE IF tags_tuple = <<>>
       THEN [raised |-> "", fs |-> fs, out |-> Outcome(FALSE, skill_id, "missing_tags", <<>>, "")]
       ELSE IF invalid # <<>>
       THEN [raised |-> "", fs |-> fs, out |-> Outcome(FALSE, skill_id, "invalid_tags", invalid, "")]
       ELSE IF found = <<>>
       THEN [raised |-> "", fs |-> fs, out |-> Outcome(FALSE, skill_id, "skill_not_found", <<>>, "")]
       ELSE LET file == FileAt(fs, found[1].skill_path)
            IN IF file = None
               THEN [raised |-> "", fs |-> fs,
                     out |-> Outcome(FALSE, skill_id, "write_failed", <<>>, "read_error")]
               ELSE LET r == _update_tags_in_skill_md(file[1], tags_tuple)
                        fs2 == [fs EXCEPT ![DirOf(found[1].skill_path)] = r.file]
                    IN IF r.err = "ok"
                       THEN [raised |-> "", fs |-> fs2,
                             out |-> Outcome(TRUE, skill_id, "", tags_tuple, "")]
                       ELSE [raised |-> "", fs |-> fs2,
                             out |-> Outcome(FALSE, skill_id, "write_failed", <<>>, r.err)]

ApplyUpdate(t) ==
    /\ pc[t] = "apply_loop"
    /\ LET r == apply_update(call[t].updates[frame[t].i], frame[t].allowed,
                             state.scan[1].skills, files)
       IN /\ files' = r.fs
          /\ IF r.raised # ""
             THEN /\ Return(t, [tool |-> "update_tags", raised |-> r.raised])
                  /\ UNCHANGED frame
             ELSE /\ frame' = [frame EXCEPT ![t].results = Append(@, r.out),
                                            ![t].i = @ + 1]
                  /\ pc' = [pc EXCEPT ![t] =
                               IF frame[t].i = Len(call[t].updates)
                               THEN "apply_rescan" ELSE "apply_loop"]
                  /\ UNCHANGED ret
    /\ UNCHANGED <<tags_file, state, state_lock, call, ncalls>>
    /\ UNCHANGED <<textVars, root_kind, cache_file, cache_src, mem, loaded>>

\* the right-hand side of state["scan"] = scan_skills(...)
ApplyRescan(t) ==
    /\ pc[t] = "apply_rescan"
    /\ \E order \in Orders(files) :
          frame' = [frame EXCEPT ![t].scan =
                       Some(scan_skills(Roots, root_kind, files,
                                        state.registry[1], order))]
    /\ pc' = [pc EXCEPT ![t] = "apply_assign"]
    /\ UNCHANGED <<tags_file, state, state_lock, call, ret, ncalls>>
    /\ UNCHANGED <<textVars, indexVars>>

\* the store into state["scan"]
ApplyAssign(t) ==
    /\ pc[t] = "apply_assign"
    /\ state' = [state EXCEPT !.scan = frame[t].scan]
    /\ pc' = [pc EXCEPT ![t] = "apply_save"]
    /\ UNCHANGED <<tags_file, state_lock, call, frame, ret, ncalls>>
    /\ UNCHANGED <<textVars, indexVars>>

\* the argument of save_index(config.cache_path, state["scan"]): the
\* ScanResult the state holds when the call is made
ApplySaveArg(t) ==
    /\ pc[t] = "apply_save"
    /\ frame' = [frame EXCEPT ![t].scan = state.scan]
    /\ pc' = [pc EXCEPT ![t] = "apply_write"]
    /\ UNCHANGED <<tags_file, state, state_lock, call, ret, ncalls>>
    /\ UNCHANGED <<textVars, indexVars>>

\* save_index writes the cache file from its argument, and the return
ApplySave(t) ==
    /\ pc[t] = "apply_write"
    /\ cache_file' = save_index(frame[t].scan[1])
    /\ Return(t, [tool |-> "update_tags", ok |-> TRUE, results |-> frame[t].results])
    /\ UNCHANGED <<tags_file, state, state_lock, call, frame, ncalls>>
    /\ UNCHANGED <<textVars, files, root_kind, cache_src, mem, loaded>>

Next ==
    \E t \in Threads :
        \/ Invoke(t)
        \/ EnsureEnter(t)
        \/ EnsureLoad(t)
        \/ EnsureScan(t)
        \/ EnsureSave(t)
        \/ list_skill_tree(t)
        \/ search_skills(t)
        \/ get_skill_details(t)
        \/ update_tags(t)
        \/ ApplyUpdate(t)
        \/ ApplyRescan(t)
        \/ ApplyAssign(t)
        \/ ApplySaveArg(t)
        \/ ApplySave(t)

Spec == Init /\ [][Next]_vars

(***************************************************************************)
(* Claims about the rewriter and the parser (SpecText)                     *)
(***************************************************************************)

StructuralErrors == {"empty_file", "missing_frontmatter", "unterminated_frontmatter"}

\* the header rule stated on the lines of a text: a first line that is the
\* delimiter and a later line that is the delimiter
HasHeader(text) ==
    LET ls == splitlines(text, FALSE)
    IN /\ ls # <<>>
       /\ strip(ls[1]) = DELIM
       /\ \E i \in 2..Len(ls) : strip(ls[i]) = DELIM

LineText(raw) == rstrip_set(raw, {NL, CR})

\* C8: a successful rewrite changes only the tags line: the first header line
\* that starts with "tags:" is replaced by the new tags line, or one such line
\* is appended to the header when there is none; every other line of the file
\* (delimiters, other header lines, body) is the same as before, in order.
C8_OnlyTagsLineChanges ==
    (rw # None /\ rw[1].err = "ok") =>
        LET B == splitlines(rw[1].before.data, TRUE)
            A == splitlines(doc.data, TRUE)
            e == CHOOSE i \in 2..Len(B) :
                     /\ strip(B[i]) = DELIM
                     /\ \A j \in 2..(i - 1) : strip(B[j]) # DELIM
            tagLines == { i \in 2..(e - 1) : is_tags_line(B[i]) }
            newText == <<"t","a","g","s",":"," ">> \o _format_tags_inline(rw[1].new_tags)
        IN IF tagLines # {}
           THEN LET k == CHOOSE i \in tagLines : \A j \in tagLines : i <= j
                IN /\ Len(A) = Len(B)
                   /\ LineText(A[k]) = newText
                   /\ \A i \in 1..Len(B) : i # k => A[i] = B[i]
           ELSE /\ Len(A) = Len(B) + 1
                /\ LineText(A[e]) = newText
                /\ \A i \in 1..(e - 1) : A[i] = B[i]
                /\ \A i \in e..Len(B) : A[i + 1] = B[i]

\* C9: a rewrite of a document without a well-formed header fails with a
\* structural error code, and every failing rewrite leaves the file as it was.
C9_FailedRewriteLeavesFile ==
    rw # None =>
        /\ (~HasHeader(read_text(rw[1].before.data)) =>
                rw[1].err \in StructuralErrors)
        /\ (rw[1].err # "ok" => doc = rw[1].before)

C9_Witness ==
    /\ rw # None
    /\ rw[1].err = "unterminated_frontmatter"
    /\ Len(rw[1].before.data) > Len(DELIM) + 1
    /\ doc = rw[1].before

\* C10: on the same document text the rewriter and the parser agree on the
\* header: both find the delimiters at the same lines, or both fail with the
\* same structural error code.
ParserStructure(res) ==
    IF res.err \in {"missing_frontmatter", "unterminated_frontmatter"}
    THEN [err |-> res.err, end_index |-> 0]
    ELSE [err |-> "found", end_index |-> res.end_index]

RewriterStructure(r) ==
    IF r.err = "ok"
    THEN [err |-> "found", end_index |-> r.end_index]
    ELSE [err |-> r.err, end_index |-> 0]

C10_SameDelimiterRule ==
    (parsed # None /\ rw # None /\ parsed[1].input = rw[1].before) =>
        ParserStructure(parsed[1].res) = RewriterStructure(rw[1])

\* the header lines of a text with a header: those between the first line
\* and the next delimiter line
HeaderOf(text) ==
    LET ls == splitlines(text, FALSE)
        e == CHOOSE i \in 2..Len(ls) :
                 /\ strip(ls[i]) = DELIM
                 /\ \A j \in 2..(i - 1) : strip(ls[j]) # DELIM
    IN SubSeq(ls, 2, e - 1)

\* the key (lowercased) and the value (trimmed, unquoted) a header line gives
LineKey(raw) ==
    LET kv == _parse_key_value_line(strip(raw))
    IN IF kv = None THEN <<>> ELSE lower(kv[1][1])

LineValue(raw) ==
    LET kv == _parse_key_value_line(strip(raw))
    IN IF kv = None THEN <<>> ELSE strip_quotes(strip(kv[1][2]))

\* the title of a header: the value of its last title line, or, when that
\* is empty or there is none, the first non-empty value of a name line
\* after it
TitleOf(h) ==
    LET titles == { i \in 1..Len(h) : LineKey(h[i]) = <<"t","i","t","l","e">> }
        k == IF titles = {} THEN 0 ELSE CHOOSE i \in titles : \A j \in titles : j <= i
        names == { i \in (k + 1)..Len(h) :
                      LineKey(h[i]) = <<"n","a","m","e">> /\ LineValue(h[i]) # <<>> }
    IN IF k > 0 /\ LineValue(h[k]) # <<>> THEN LineValue(h[k])
       ELSE IF names = {} THEN <<>>
       ELSE LineValue(h[CHOOSE i \in names : \A j \in names : i <= j])

\* the description of a header: the value of its last description line
DescriptionOf(h) ==
    LET descs == { i \in 1..Len(h) :
                      LineKey(h[i]) = <<"d","e","s","c","r","i","p","t","i","o","n">> }
    IN IF descs = {} THEN <<>>
       ELSE LineValue(h[CHOOSE i \in descs : \A j \in descs : j <= i])

\* the outcome the order of the checks prescribes for a text
ExpectedParse(text) ==
    LET ls == splitlines(text, FALSE)
    IN IF ls = <<>> \/ strip(ls[1]) # DELIM THEN "missing_frontmatter"
       ELSE IF ~\E i \in 2..Len(ls) : strip(ls[i]) = DELIM THEN "unterminated_frontmatter"
       ELSE IF TitleOf(HeaderOf(text)) = <<>> THEN "missing_title"
       ELSE IF DescriptionOf(HeaderOf(text)) = <<>> THEN "missing_description"
       ELSE "ok"

\* C15: parse_skill_markdown fails with missing_frontmatter when the first
\* line is not the delimiter, else with unterminated_frontmatter when no later
\* line is the delimiter, else with missing_title when the header gives no
\* title (a name line counting only while the title is unset), else with
\* missing_description when it gives no description; otherwise it returns
\* the title and the description of the header, both non-empty.
C15_ParseOutcome ==
    parsed # None =>
        LET text == lstrip_set(read_text(parsed[1].input.data), {BOM})
            res == parsed[1].res
        IN /\ res.err = ExpectedParse(text)
           /\ res.err = "ok" =>
                 /\ res.title = TitleOf(HeaderOf(text))
                 /\ res.description = DescriptionOf(HeaderOf(text))
                 /\ res.title # <<>>
                 /\ res.description # <<>>

\* a title line followed by a name line: the name does not replace the title
C15_Witness ==
    /\ parsed # None
    /\ parsed[1].input.data = BuildDoc(<<DELIM, L_title, L_name, L_desc, DELIM>>,
                                       [eol |-> <<NL>>, final |-> TRUE, bom |-> FALSE])
    /\ parsed[1].res.err = "ok"
    /\ parsed[1].res.title = <<"X">>
    /\ parsed[1].res.description = <<"Y">>

\* C17: when a document that parse_skill_markdown accepts is rewritten with
\* a tag sequence T and the rewrite succeeds, parsing the rewritten document
\* gives the title and the description of the original and the tags T.
C17_RewriteThenParse ==
    (/\ rw # None
     /\ rw[1].err = "ok"
     /\ parse_skill_markdown(read_text(rw[1].before.data)).err = "ok") =>
        LET before == parse_skill_markdown(read_text(rw[1].before.data))
            after == parse_skill_markdown(read_text(doc.data))
        IN /\ after.err = "ok"
           /\ after.title = before.title
           /\ after.description = before.description
           /\ after.tags = rw[1].new_tags

(***************************************************************************)
(* Claims about the tag validation (SpecValidate)                          *)
(***************************************************************************)

S_missing_tags == <<"m","i","s","s","i","n","g","_","t","a","g","s">>
S_invalid_tags == <<"i","n","v","a","l","i","d","_","t","a","g","s">>

\* the tags of a sequence that are not in the allow-list, in their order
Offending(tags, allowed) ==
    LET NotAllowed(t) == t \notin allowed
    IN SelectSeq(tags, NotAllowed)

\* C13: validation of an empty tag sequence gives exactly the issue
\* missing_tags; of a non-empty one, under a non-empty allow-list that lacks
\* some of its tags, exactly one issue "invalid_tags:" followed by the
\* offending tags joined by commas in their original order; and no issue in
\* every other case.
C13_ValidateResult ==
    validated # None =>
        LET v == validated[1]
        IN IF v.tags = <<>>
           THEN v.issues = << S_missing_tags >>
           ELSE IF v.allowed # {} /\ Offending(v.tags, v.allowed) # <<>>
           THEN v.issues = << S_invalid_tags \o <<":">>
                               \o join(Offending(v.tags, v.allowed), <<",">>) >>
           ELSE v.issues = <<>>

C13_Witness ==
    /\ validated # None
    /\ validated[1].tags = <<TagC, TagA, TagB>>
    /\ validated[1].allowed = {TagA}
    /\ validated[1].issues = << S_invalid_tags \o <<":", "c", ",", "b">> >>

(***************************************************************************)
(* Claims about the scanner and the index cache (SpecIndex)                *)
(***************************************************************************)

\* walking path from the root through the children mappings reaches a node
Walks(tree, path) ==
    /\ path \in DOMAIN tree
    /\ \A j \in 1..Len(path) :
          /\ SubSeq(path, 1, j - 1) \in DOMAIN tree
          /\ path[j] \in tree[SubSeq(path, 1, j - 1)].children

RecordsAt(skills, key) ==
    LET At(r) == r.category_path = key
    IN SelectSeq(skills, At)

TreeConsistent(scan) ==
    /\ \A i \in 1..Len(scan.skills) :
          /\ Walks(scan.tree, scan.skills[i].category_path)
          /\ InSeq(scan.tree[scan.skills[i].category_path].skills, scan.skills[i])
    /\ \A key \in DOMAIN scan.tree :
          scan.tree[key].skills = RecordsAt(scan.skills, key)

ScannedOk == mem # None /\ mem[1].origin = "scan"
LoadedOk == loaded # None /\ loaded[1].res.outcome = "ok"

\* C3: in every ScanResult that scan_skills or load_index returns, each record
\* is attached to the node its category_path walks to, and the records at a
\* node are exactly the records with that category_path.
C3_TreeRecordConsistency ==
    /\ ScannedOk => TreeConsistent(mem[1].scan)
    /\ LoadedOk => TreeConsistent(loaded[1].res.scan[1])

C3_Witness ==
    /\ ScannedOk
    /\ Len(mem[1].scan.skills) >= 3
    /\ \E i, j \in 1..Len(mem[1].scan.skills) :
          /\ i # j
          /\ mem[1].scan.skills[i].category_path = <<DirX>>
          /\ mem[1].scan.skills[j].category_path = <<DirX>>
    /\ LoadedOk
    /\ Len(loaded[1].res.scan[1].skills) >= 3
    /\ loaded[1].src = Some(mem[1].scan)

\* C4: load_index of the file save_index wrote from a ScanResult R returns a
\* ScanResult equal to R, records and tree.
C4_CacheRoundTrip ==
    (loaded # None /\ loaded[1].src # None) =>
        /\ loaded[1].res.outcome = "ok"
        /\ loaded[1].res.scan = loaded[1].src

\* C5: a cache file whose version is missing or is not 1, whose skills field
\* is missing, or whose skills value is not a list, is loaded as absent.
VersionIsOne(data) ==
    Get(data, K_version, JNull) \in { JInt(<<"1">>), JFloat(<<"1", ".", "0">>) }

InvalidatedCache(cfile) ==
    /\ cfile.kind = "json"
    /\ cfile.value.k = "obj"
    /\ \/ ~VersionIsOne(cfile.value)
       \/ ~HasKey(cfile.value, K_skills)
       \/ Get(cfile.value, K_skills, JNull).k # "list"

C5_InvalidCacheIsAbsent ==
    (loaded # None /\ InvalidatedCache(loaded[1].file)) =>
        loaded[1].res.outcome = "absent"

\* C6: load_index never raises, whatever the cache file holds: it returns a
\* ScanResult or absent.
C6_LoadNeverRaises ==
    loaded # None => loaded[1].res.outcome \in {"ok", "absent"}

\* C7: a scan yields exactly one record for every document below an existing
\* root directory that can be read and parsed, and nothing for any other
\* document or root.
ScannableDocs ==
    { rd \in (1..Len(Roots)) \X (DOMAIN files) :
        /\ root_kind[rd[1]] = "dir"
        /\ IsPrefix(Roots[rd[1]].parts, rd[2])
        /\ files[rd[2]].readable
        /\ parse_skill_markdown(read_text(files[rd[2]].data)).err = "ok" }

RecordOf(r, rd) ==
    /\ r.source_root = Roots[rd[1]]
    /\ r.skill_path = AbsPath(Append(rd[2], SKILL_MD))

C7_OneRecordPerParseableDocument ==
    ScannedOk =>
        LET skills == mem[1].scan.skills
        IN /\ Len(skills) = Cardinality(ScannableDocs)
           /\ \A rd \in ScannableDocs :
                 \E i \in 1..Len(skills) : RecordOf(skills[i], rd)
           /\ \A i \in 1..Len(skills) :
                 \E rd \in ScannableDocs : RecordOf(skills[i], rd)

C7_Witness ==
    /\ ScannedOk
    /\ DOMAIN files = { <<DirA>>, <<DirA, DirX>>, <<DirB, DirX>> }
    /\ files[<<DirA>>] = File(InvalidDoc)
    /\ files[<<DirA, DirX>>] = File(ValidDoc)
    /\ files[<<DirB, DirX>>] = Unreadable
    /\ Len(mem[1].scan.skills) = 1
    /\ mem[1].scan.skills[1].skill_path = AbsPath(<<DirA, DirX, SKILL_MD>>)

\* the nodes of a tree without their records: paths, names, children
Shape(tree) ==
    [k \in DOMAIN tree |->
        [name |-> tree[k].name, path |-> tree[k].path, children |-> tree[k].children]]

\* the tree _insert_into_tree builds from records inserted in turn
RECURSIVE InsertedTree(_, _)
InsertedTree(tree, records) ==
    IF records = <<>> THEN tree
    ELSE InsertedTree(_insert_into_tree(tree, Head(records)), Tail(records))

Orderings(records) ==
    { [i \in 1..Len(records) |-> records[p[i]]] :
        p \in { q \in [1..Len(records) -> 1..Len(records)] :
                  \A i, j \in 1..Len(records) : i # j => q[i] # q[j] } }

\* the prefixes of the category paths of the records
PathPrefixes(records) ==
    {<<>>} \cup
    UNION { { SubSeq(records[i].category_path, 1, n) :
                n \in 0..Len(records[i].category_path) } :
            i \in 1..Len(records) }

\* every non-root node has its parent's path with its own name appended and
\* is a child of its parent
PathsChained(tree) ==
    \A k \in DOMAIN tree :
        k # <<>> =>
            LET parent == SubSeq(k, 1, Len(k) - 1)
            IN /\ parent \in DOMAIN tree
               /\ tree[k].path = Append(tree[parent].path, tree[k].name)
               /\ tree[k].name \in tree[parent].children

OrderIndependent(scan) ==
    /\ \A records \in Orderings(scan.skills) :
          /\ Shape(InsertedTree(EmptyTree, records)) = Shape(scan.tree)
          /\ Shape(build_tree(records)) = Shape(scan.tree)
    /\ DOMAIN scan.tree = PathPrefixes(scan.skills)
    /\ PathsChained(scan.tree)

\* C16: the nodes of the tree (paths, names, children) are the same for every
\* order in which the records are inserted, by _insert_into_tree or by
\* build_tree; they are the prefixes of the category paths present, and each
\* non-root node's path is its parent's path with its own name appended.
C16_TreeOrderIndependent ==
    /\ mem # None => OrderIndependent(mem[1].scan)
    /\ LoadedOk => OrderIndependent(loaded[1].res.scan[1])

C16_Witness ==
    /\ ScannedOk
    /\ \E i, j \in 1..Len(mem[1].scan.skills) :
          /\ i < j
          /\ mem[1].scan.skills[i].category_path = <<DirX>>
          /\ mem[1].scan.skills[j].category_path = <<>>
    /\ \E k \in DOMAIN mem[1].scan.tree : Len(k) = 1

\* the names of the configured roots are pairwise distinct
RootNamesDistinct ==
    \A i, j \in 1..Len(Roots) : i # j => PathName(Roots[i]) # PathName(Roots[j])

\* C14: in the result of one scan over roots with pairwise distinct names, no
\* two records have the same skill_id, whatever characters the names of the
\* roots and of the directories below them hold.
C14_UniqueIds ==
    (ScannedOk /\ RootNamesDistinct) =>
        \A i, j \in 1..Len(mem[1].scan.skills) :
            i # j => mem[1].scan.skills[i].skill_id # mem[1].scan.skills[j].skill_id

(***************************************************************************)
(* Claims about the server (Spec)                                          *)
(***************************************************************************)

\* a thread is inside a scan-and-save step: it has run the scan of the step
\* inside _ensure_state_loaded or of the one ending update_tags apply, and
\* has not yet finished the save that follows it
InScanAndSave(t) ==
    pc[t] \in {"ensure_save", "apply_assign", "apply_save", "apply_write"}

\* C1: at most one scan-and-save step on the shared state is in progress at
\* any time, whichever way the tool invocations interleave: no two threads
\* are ever both between their scan and the end of their save.
C1_OneScanAndSaveAtATime ==
    \A t1, t2 \in Threads : t1 # t2 => ~(InScanAndSave(t1) /\ InScanAndSave(t2))

\* the results a full scan of the documents now on disk can give
ScansOfDisk ==
    { scan_skills(Roots, root_kind, files, state.registry[1], order) :
          order \in Orders(files) }

\* no invocation is running, none ended in an exception, and some
\* update_tags apply has reached its return
AppliesReturned ==
    /\ \A t \in Threads : pc[t] = "idle"
    /\ \A t \in Threads : ret[t] # None => "raised" \notin DOMAIN ret[t][1]
    /\ \E t \in Threads :
          /\ ret[t] # None
          /\ ret[t][1].tool = "update_tags"
          /\ "results" \in DOMAIN ret[t][1]

\* C2: once every update_tags apply call has returned, the in-memory
\* ScanResult is a full scan of the documents as they then are on disk, so
\* every record carries the tags last written to its document.
C2_RescanReflectsWrites ==
    AppliesReturned => state.scan[1] \in ScansOfDisk

\* thread t has returned from an update_tags apply call on a non-empty batch
\* that ran with the index loaded
ApplyBatchReturned(t) ==
    /\ pc[t] = "idle"
    /\ ret[t] # None
    /\ state.scan # None
    /\ call[t].tool = "update_tags"
    /\ lower(strip(call[t].mode)) = S_apply
    /\ call[t].updates # <<>>

\* C11: an update_tags apply call on a batch of N requests returns N
\* outcomes, the i-th being the outcome of the i-th request, whatever
\* requests of the batch failed, and the full re-scan has run before the
\* return.
C11_BatchIndependence ==
    \A t \in Threads :
        ApplyBatchReturned(t) =>
            /\ "results" \in DOMAIN ret[t][1]
            /\ Len(ret[t][1].results) = Len(call[t].updates)
            /\ \A i \in 1..Len(call[t].updates) :
                  ret[t][1].results[i].skill_id = RequestedId(call[t].updates[i])
            /\ frame[t].scan # None

FlaggedInvalid(skill) ==
    \E i \in 1..Len(skill.tag_issues) : startswith(skill.tag_issues[i], S_invalid_tags)

\* C12: while the loaded taxonomy has an empty allow-list, no scan flags a
\* record with an invalid_tags issue and no update_tags apply request is
\* rejected with the invalid_tags error.
C12_EmptyAllowListAcceptsAll ==
    (state.registry # None /\ state.registry[1] = {}) =>
        \A t \in Threads :
            /\ frame[t].scan # None =>
                  \A i \in 1..Len(frame[t].scan[1].skills) :
                      ~FlaggedInvalid(frame[t].scan[1].skills[i])
            /\ \A i \in 1..Len(frame[t].results) :
                  frame[t].results[i].error # "invalid_tags"

\* C18: whenever the shared index is loaded, each of its records carries the
\* tag issues that validating its tags against the taxonomy held in the shared
\* state gives.
C18_TagIssuesAgree ==
    (state.scan # None /\ state.registry # None) =>
        \A i \in 1..Len(state.scan[1].skills) :
            state.scan[1].skills[i].tag_issues =
                _validate_tags(state.scan[1].skills[i].frontmatter.tags,
                               state.registry[1])

\* C19: whenever the index is loaded and no tool invocation is in progress,
\* the records stored in the cache file are exactly the records of the
\* in-memory ScanResult, that is, the cache file is what save_index writes for
\* the ScanResult held in the shared state.
AtRest == \A t \in Threads : pc[t] = "idle"

C19_CacheMatchesMemoryAtRest ==
    (state.scan # None /\ AtRest) => cache_file = save_index(state.scan[1])

====
